---- MODULE Spec2Model ----
(***************************************************************************)
(* The agentic streaming bridge of server/index.ts (direct-API variant and *)
(* CLI-subprocess variant of POST /api/chat) and the MCP gateway adapter   *)
(* of server/mcp.ts, as one state machine per request.                     *)
(*                                                                         *)
(* One action is one run-to-completion piece of JavaScript: the code from  *)
(* one event-loop callback (or await continuation) up to the next await.   *)
(***************************************************************************)
EXTENDS Naturals, Sequences, FiniteSets, TLC

VARIABLES
  backend,       \* "api" | "cli": which variant of index.ts serves the request
  body,          \* req.body.messages as received
  pc,            \* where the handler is suspended
  status,        \* HTTP status sent (0: none yet)
  closed,        \* let closed
  heartbeatOn,   \* the setInterval timer is armed
  heartbeats,    \* number of ': heartbeat' comments written
  resEnded,      \* res.end() was called
  resClosed,     \* the response 'close' event has fired
  out,           \* protocol frames written with writePart / res.write, in order
  inStep,        \* let inStep
  activeTextId,  \* let activeTextId (0: null)
  nextId,        \* source of crypto.randomUUID() values
  nBlocks,       \* content blocks the model has streamed in this request
  nDeltas,       \* text deltas the model has streamed in this request
  aborted,       \* controller.abort() was called (API variant)
  apiMessages,   \* the conversation turn list (API variant)
  iterations,    \* let iterations
  modelCalls,    \* number of anthropic.messages.stream(...) calls
  toolCallIds,   \* Map<number, string> of the current iteration
  content,       \* content blocks of the current model turn (response.content)
  stopReason,    \* response.stop_reason of the latest final message ("": none yet)
  tools,         \* const tools: the catalog handed to the model
  toolIdx,       \* index in response.content of the tool block being awaited
  toolCallId,    \* const toolCallId of the tool block being awaited
  toolResults,   \* const toolResults of the current iteration
  gatewayLog,    \* client.callTool requests issued, with their outcome
  client,        \* mcp.ts: client !== null
  connected,     \* the gateway side: client.connect() has succeeded
  toolsCache,    \* mcp.ts: toolsCache
  connects,      \* number of client.connect() calls
  listCalls,     \* number of client.listTools() calls
  toolCalls,     \* Map<string, string> (CLI variant)
  child,         \* the spawned subprocess: "none" | "running" | "closed"
  childStarted,  \* the subprocess has produced output
  childErrored,  \* the child 'error' event has fired
  sigterms,      \* number of child.kill('SIGTERM') calls
  nEchoes,       \* complete assistant / user messages the subprocess has printed
  prompt,        \* what was written to the subprocess's stdin
  callers,       \* other callers of getMcpTools / callMcpTool in the same process
  twin           \* the CLI variant's handler state, when both variants are fed alike

vars == <<backend, body, pc, status, closed, heartbeatOn, heartbeats, resEnded, resClosed,
          out, inStep, activeTextId, nextId, nBlocks, nDeltas, aborted, apiMessages,
          iterations, modelCalls, toolCallIds, content, stopReason, tools, toolIdx,
          toolCallId,
          toolResults, gatewayLog,
          client, connected, toolsCache, connects, listCalls,
          toolCalls, child, childStarted, childErrored, sigterms, nEchoes, prompt,
          callers, twin>>

----------------------------------------------------------------------------
(* Bounds of the model *)

\* content blocks the model streams per request, over all turns
MaxBlocks == 2
\* model turns of a request that stream content blocks (the later turns are empty)
MaxRichTurns == 2
\* text deltas the model streams per request
MaxDeltas == 1
\* keep-alive ticks per request
MaxHeartbeats == 1
\* complete assistant / user messages the subprocess prints per request
MaxEchoes == 2
\* turns of a request body whose normalization is checked
MaxTurns == 2
\* concurrent callers of the gateway adapter
MaxCallers == 2
\* calls each of them makes
MaxCalls == 2

(* Program constants *)

MAX_ITERATIONS == 10

ALLOWED_TOOLS == {"execute_cypher", "get_schema", "get_statistics"}

----------------------------------------------------------------------------
(* The environment's vocabulary *)

\* what listTools() of the gateway advertises: more than the allow-list
GatewayCatalog == ALLOWED_TOOLS \cup {"write_cypher"}

\* tool names a model turn may ask for
RequestedTools == {"execute_cypher", "write_cypher"}

\* messages of the errors the collaborators throw
ErrorMessages == {"boom"}

\* message of the error a cancelled model call rejects with
AbortMessage == "Request was aborted."

\* texts of the deltas the model streams
DeltaTexts == {"4"}

\* input payload of the tool request with provider identifier pid
ToolInput(pid) == "q" \o ToString(pid)

\* contents callTool() may resolve with
ToolContents ==
  { [kind |-> "parts",
     parts |-> <<[type |-> "text", text |-> "3 "], [type |-> "image", text |-> "png"],
                 [type |-> "text", text |-> "rows"]>>] }

\* stop reasons of a model turn
StopReasons == {"tool_use", "end_turn"}

NoBlock == [type |-> "none", id |-> 0, name |-> "", data |-> ""]

TextBlock(t) == [type |-> "text", id |-> 0, name |-> "", data |-> t]

ToolUseBlock(pid, n, input) == [type |-> "tool_use", id |-> pid, name |-> n, data |-> input]

\* provider-assigned identifier of the k-th content block of the request
ProviderId(k) == 100 + k

----------------------------------------------------------------------------
(* Request bodies *)

Msg(r, c) == [role |-> r, hasParts |-> FALSE, parts |-> <<>>, content |-> c]

PartsMsg(r, ps) == [role |-> r, hasParts |-> TRUE, parts |-> ps, content |-> ""]

Part(t, x) == [type |-> t, text |-> x]

Bodies ==
  { [kind |-> "missing", list |-> <<>>],
    [kind |-> "notArray", list |-> <<>>],
    [kind |-> "array", list |-> <<>>],
    [kind |-> "array",
     list |-> <<PartsMsg("user", <<Part("text", "How many "), Part("file", "x"),
                                   Part("text", ""), Part("text", "artists?")>>),
                Msg("assistant", "42"),
                Msg("system", "")>>] }

\* a request of one user turn
SingleTurnBody == [kind |-> "array", list |-> <<Msg("user", "What is 2+2?")>>]

\* turns of both shapes: with content, with parts (text and other parts, empty text,
\* no parts at all), of the roles a client may send
TurnShapes ==
  { Msg("user", "hi"), Msg("assistant", ""), Msg("system", "sys"),
    PartsMsg("user", <<>>),
    PartsMsg("user", <<Part("text", "a"), Part("file", "x"), Part("text", ""),
                       Part("text", "b")>>),
    PartsMsg("user", <<Part("text", "b"), Part("text", "a")>>),
    PartsMsg("assistant", <<Part("file", "x")>>),
    PartsMsg("tool", <<Part("text", "a")>>),
    [role |-> "user", hasParts |-> TRUE, parts |-> <<>>, content |-> "unused"] }

\* the request bodies of 1..MaxTurns such turns
TurnLists ==
  UNION {[1..n -> TurnShapes] : n \in 1..MaxTurns}

NormBodies == {[kind |-> "array", list |-> l] : l \in TurnLists}

\* a faulty extractText, for comparison: the parts are not read
extractTextContentOnly(msg) == msg.content

RECURSIVE JoinText(_)
JoinText(ps) ==
  IF ps = <<>> THEN ""
  ELSE (IF Head(ps).type = "text" /\ Head(ps).text # "" THEN Head(ps).text ELSE "")
       \o JoinText(Tail(ps))

extractText(msg) == IF msg.hasParts THEN JoinText(msg.parts) ELSE msg.content

toAnthropicMessages(messages) ==
  [i \in 1..Len(messages) |->
     [role |-> IF messages[i].role = "user" THEN "user" ELSE "assistant",
      content |-> <<[type |-> "string", id |-> 0, name |-> "",
                     data |-> extractText(messages[i])]>>]]

\* a faulty validation, for comparison: the length is not tested
ValidBodyAnyArray(b) == b.kind = "array"

\* !(!messages || !Array.isArray(messages) || messages.length === 0)
ValidBody(b) == b.kind = "array" /\ b.list # <<>>

----------------------------------------------------------------------------
(* Frames: writePart(res, part) appends one frame; '[DONE]' is the marker *)

Frame(t, i, n, d) == [type |-> t, id |-> i, name |-> n, data |-> d]

Start == Frame("start", 0, "", "")
StartStep == Frame("start-step", 0, "", "")
FinishStep == Frame("finish-step", 0, "", "")
TextStart(i) == Frame("text-start", i, "", "")
TextDelta(i, d) == Frame("text-delta", i, "", d)
TextEnd(i) == Frame("text-end", i, "", "")
ToolInputStart(i, n) == Frame("tool-input-start", i, n, "")
ToolInputAvailable(i, n, input) == Frame("tool-input-available", i, n, input)
ToolOutputAvailable(i, o) == Frame("tool-output-available", i, "", o)
Finish == Frame("finish", 0, "", "stop")
ErrorFrame(m) == Frame("error", 0, "", m)
Done == Frame("[DONE]", 0, "", "")

----------------------------------------------------------------------------
(* Maps *)

EmptyMap == <<>>

MapHas(m, k) == k \in DOMAIN m

MapSet(m, k, v) == [x \in (DOMAIN m) \cup {k} |-> IF x = k THEN v ELSE m[x]]

----------------------------------------------------------------------------
(* mcp.ts *)

NoCatalog == [set |-> FALSE, tools |-> {}]

\* tools.filter((t) => ALLOWED_TOOLS.has(t.name))
FilterCatalog(listed) == {t \in listed : t \in ALLOWED_TOOLS}

\* a faulty guard, for comparison: the cache, not the client, is tested
NeedsConnectUntilCached(s) == ~s.toolsCache.set

\* ensureConnected: `if (client) return`
NeedsConnect(s) == ~s.client

\* the adapter as earlier requests of the process may have left it
McpStates ==
  { [client |-> FALSE, connected |-> FALSE, toolsCache |-> NoCatalog],
    [client |-> TRUE, connected |-> TRUE,
     toolsCache |-> [set |-> TRUE, tools |-> FilterCatalog(GatewayCatalog)]] }

\* a caller of the adapter that has not called yet
IdleCaller == [pc |-> "idle", op |-> "", name |-> "", ready |-> FALSE,
               cached |-> FALSE, got |-> NoCatalog, calls |-> 0]

Callers == 1..MaxCallers

\* no second handler runs beside the request's
NoTwin == [pc |-> "none"]

----------------------------------------------------------------------------

InitRequestWith(bodies) ==
  /\ backend \in {"api", "cli"}
  /\ body \in bodies
  /\ \E m \in McpStates :
       /\ client = m.client
       /\ connected = m.connected
       /\ toolsCache = m.toolsCache
  /\ pc = "idle"
  /\ status = 0
  /\ closed = FALSE
  /\ heartbeatOn = FALSE
  /\ heartbeats = 0
  /\ resEnded = FALSE
  /\ resClosed = FALSE
  /\ out = <<>>
  /\ inStep = FALSE
  /\ activeTextId = 0
  /\ nextId = 1
  /\ nBlocks = 0
  /\ nDeltas = 0
  /\ aborted = FALSE
  /\ apiMessages = <<>>
  /\ iterations = 0
  /\ modelCalls = 0
  /\ toolCallIds = EmptyMap
  /\ content = <<>>
  /\ stopReason = ""
  /\ tools = NoCatalog
  /\ toolIdx = 0
  /\ toolCallId = 0
  /\ toolResults = <<>>
  /\ gatewayLog = <<>>
  /\ connects = 0
  /\ listCalls = 0
  /\ toolCalls = EmptyMap
  /\ child = "none"
  /\ childStarted = FALSE
  /\ childErrored = FALSE
  /\ sigterms = 0
  /\ nEchoes = 0
  /\ prompt = ""

InitRequest == InitRequestWith(Bodies)

Init ==
  /\ InitRequest
  /\ callers = [c \in Callers |-> IdleCaller]
  /\ twin = NoTwin

----------------------------------------------------------------------------
(* The program's state as one value, so that straight-line code composes *)

Cur ==
  [pc |-> pc, status |-> status, closed |-> closed, heartbeatOn |-> heartbeatOn,
   resEnded |-> resEnded, out |-> out, inStep |-> inStep,
   activeTextId |-> activeTextId, nextId |-> nextId, aborted |-> aborted,
   apiMessages |-> apiMessages, iterations |-> iterations, modelCalls |-> modelCalls,
   toolCallIds |-> toolCallIds, content |-> content, stopReason |-> stopReason,
   tools |-> tools, toolIdx |-> toolIdx,
   toolCallId |-> toolCallId, toolResults |-> toolResults, gatewayLog |-> gatewayLog,
   client |-> client, toolsCache |-> toolsCache, connects |-> connects,
   listCalls |-> listCalls, toolCalls |-> toolCalls, sigterms |-> sigterms,
   prompt |-> prompt]

Becomes(s) ==
  /\ pc' = s.pc
  /\ status' = s.status
  /\ closed' = s.closed
  /\ heartbeatOn' = s.heartbeatOn
  /\ resEnded' = s.resEnded
  /\ out' = s.out
  /\ inStep' = s.inStep
  /\ activeTextId' = s.activeTextId
  /\ nextId' = s.nextId
  /\ aborted' = s.aborted
  /\ apiMessages' = s.apiMessages
  /\ iterations' = s.iterations
  /\ modelCalls' = s.modelCalls
  /\ toolCallIds' = s.toolCallIds
  /\ content' = s.content
  /\ stopReason' = s.stopReason
  /\ tools' = s.tools
  /\ toolIdx' = s.toolIdx
  /\ toolCallId' = s.toolCallId
  /\ toolResults' = s.toolResults
  /\ gatewayLog' = s.gatewayLog
  /\ client' = s.client
  /\ toolsCache' = s.toolsCache
  /\ connects' = s.connects
  /\ listCalls' = s.listCalls
  /\ toolCalls' = s.toolCalls
  /\ sigterms' = s.sigterms
  /\ prompt' = s.prompt

\* what the program does not assign: the request and the environment's counters
envVars == <<backend, body, callers, twin, heartbeats, resClosed, nBlocks, nDeltas,
             connected, child, childStarted, childErrored, nEchoes>>

----------------------------------------------------------------------------
(* Helpers of both variants *)

writePart(s, part) == [s EXCEPT !.out = Append(@, part)]

\* a faulty ensureStep, for comparison: inStep is not tested
ensureStepAlways(s) == [writePart(s, StartStep) EXCEPT !.inStep = TRUE]

ensureStep(s) ==
  IF ~s.inStep THEN [writePart(s, StartStep) EXCEPT !.inStep = TRUE] ELSE s

\* a faulty endStep, for comparison: the open text block is not ended
endStepStepOnly(s) ==
  IF s.inStep THEN [writePart(s, FinishStep) EXCEPT !.inStep = FALSE] ELSE s

endStep(s) ==
  LET s1 == IF s.activeTextId # 0
              THEN [writePart(s, TextEnd(s.activeTextId)) EXCEPT !.activeTextId = 0]
              ELSE s
  IN IF s1.inStep THEN [writePart(s1, FinishStep) EXCEPT !.inStep = FALSE] ELSE s1

----------------------------------------------------------------------------
(* API variant: app.post('/api/chat') *)

\* a faulty ending, for comparison: leaving the loop at the ceiling is reported as an
\* error
finishErrorAtCeiling(s) ==
  IF ~s.closed
    THEN [writePart(writePart(IF s.iterations > MAX_ITERATIONS
                                THEN writePart(s, ErrorFrame("too many iterations"))
                                ELSE s, Finish), Done)
            EXCEPT !.resEnded = TRUE, !.closed = TRUE, !.heartbeatOn = FALSE,
                   !.pc = "done"]
    ELSE [s EXCEPT !.pc = "done"]

\* a faulty ending, for comparison: the keep-alive timer is left armed
finishKeepsTimer(s) ==
  IF ~s.closed
    THEN [writePart(writePart(s, Finish), Done)
            EXCEPT !.resEnded = TRUE, !.closed = TRUE, !.pc = "done"]
    ELSE [s EXCEPT !.pc = "done"]

\* if (!closed) { finish; [DONE]; res.end(); closed = true; clearInterval }
finish(s) ==
  IF ~s.closed
    THEN [writePart(writePart(s, Finish), Done)
            EXCEPT !.resEnded = TRUE, !.closed = TRUE, !.heartbeatOn = FALSE,
                   !.pc = "done"]
    ELSE [s EXCEPT !.pc = "done"]

\* a faulty catch, for comparison: the error is swallowed and the response left open
catchSwallows(s, message) == [s EXCEPT !.heartbeatOn = FALSE, !.pc = "done"]

\* catch (err) { clearInterval; if (closed) return; closed = true; error; finish; [DONE] }
catch(s, message) ==
  LET s1 == [s EXCEPT !.heartbeatOn = FALSE, !.pc = "done"]
  IN IF s1.closed
       THEN s1
       ELSE [writePart(writePart(writePart([s1 EXCEPT !.closed = TRUE],
                                           ErrorFrame(message)), Finish), Done)
               EXCEPT !.resEnded = TRUE]

\* a faulty loop test, for comparison: the bound is compared with <=
LoopGuardInclusive(n) == n <= MAX_ITERATIONS

\* iterations++ < MAX_ITERATIONS, on the value before the increment
LoopGuard(n) == n < MAX_ITERATIONS

\* while (iterations++ < MAX_ITERATIONS) { if (closed) break; ...; stream(...) }
loop(s) ==
  LET s1 == [s EXCEPT !.iterations = @ + 1]
  IN IF LoopGuard(s.iterations) /\ ~s1.closed
       THEN [s1 EXCEPT !.inStep = FALSE, !.activeTextId = 0, !.toolCallIds = EmptyMap,
                       !.content = <<>>, !.modelCalls = @ + 1, !.pc = "stream"]
       ELSE finish(s1)

\* tools = await getMcpTools() resolved: apiMessages, the start frame, the loop
start(s) ==
  loop(writePart([s EXCEPT !.tools = s.toolsCache,
                           !.apiMessages = toAnthropicMessages(body.list)], Start))

\* the request arrives: validation, SSE setup, heartbeat, getMcpTools()
ApiRequest ==
  /\ backend = "api"
  /\ pc = "idle"
  /\ IF ~ValidBody(body)
       THEN Becomes([Cur EXCEPT !.status = 400, !.pc = "rejected"])
       ELSE LET s1 == [Cur EXCEPT !.status = 200, !.heartbeatOn = TRUE]
            IN IF ~NeedsConnect(s1)
                 THEN Becomes(start(s1))
                 ELSE Becomes([s1 EXCEPT !.client = TRUE, !.connects = @ + 1,
                                         !.pc = "connecting"])
  /\ UNCHANGED <<backend, body, callers, twin, heartbeats, resClosed, nBlocks, nDeltas,
                 connected, child, childStarted, childErrored, nEchoes>>

\* await client.connect(transport) settles
McpConnectDone ==
  /\ pc = "connecting"
  /\ \/ /\ connected' = TRUE
        /\ Becomes([Cur EXCEPT !.listCalls = @ + 1, !.pc = "listing"])
     \/ /\ connected' = connected
        /\ \E m \in ErrorMessages : Becomes(catch(Cur, m))
  /\ UNCHANGED <<backend, body, callers, twin, heartbeats, resClosed, nBlocks, nDeltas,
                 child, childStarted, childErrored, nEchoes>>

\* await client.listTools() settles
McpListDone ==
  /\ pc = "listing"
  /\ \/ Becomes(start([Cur EXCEPT !.toolsCache =
                         [set |-> TRUE, tools |-> FilterCatalog(GatewayCatalog)]]))
     \/ \E m \in ErrorMessages : Becomes(catch(Cur, m))
  /\ UNCHANGED <<backend, body, callers, twin, heartbeats, resClosed, nBlocks, nDeltas,
                 connected, child, childStarted, childErrored, nEchoes>>

\* stream.on('streamEvent', (event) => ...)
streamEvent(s, event) ==
  IF s.closed THEN s
  ELSE IF event.type = "content_block_start" /\ event.block.type = "text"
    THEN LET s1 == ensureStep(s)
             id == s1.nextId
         IN writePart([s1 EXCEPT !.nextId = @ + 1, !.activeTextId = id], TextStart(id))
  ELSE IF event.type = "content_block_start" /\ event.block.type = "tool_use"
    THEN LET id == s.nextId
             s1 == [s EXCEPT !.nextId = @ + 1,
                             !.toolCallIds = MapSet(@, event.index, id)]
         IN writePart(ensureStep(s1), ToolInputStart(id, event.block.name))
  ELSE IF event.type = "content_block_delta" /\ event.delta.type = "text_delta"
    THEN IF s.activeTextId # 0
           THEN writePart(s, TextDelta(s.activeTextId, event.delta.text))
           ELSE s
  ELSE s

BlockStartEvent(i, b) ==
  [type |-> "content_block_start", index |-> i, block |-> b,
   delta |-> [type |-> "", text |-> ""]]

TextDeltaEvent(i, d) ==
  [type |-> "content_block_delta", index |-> i, block |-> NoBlock,
   delta |-> [type |-> "text_delta", text |-> d]]

\* the SDK's snapshot after a delta: the text is appended to the last block
AppendText(blocks, d) ==
  [blocks EXCEPT ![Len(blocks)] = [@ EXCEPT !.data = @ \o d]]

\* the blocks the model stream may start next: any block while the request's budget
\* of blocks lasts, and afterwards one execute_cypher call per turn
StreamableBlocks ==
  IF nBlocks < MaxBlocks /\ modelCalls <= MaxRichTurns
    THEN {TextBlock("")} \cup
         {ToolUseBlock(ProviderId(nBlocks + 1), n, ToolInput(ProviderId(nBlocks + 1))) :
            n \in RequestedTools}
  ELSE IF content = <<>>
    THEN {ToolUseBlock(ProviderId(MaxBlocks + modelCalls), "execute_cypher",
                       ToolInput(ProviderId(MaxBlocks + modelCalls)))}
  ELSE {}

\* the model stream starts a content block
ApiBlockStart ==
  /\ pc = "stream"
  /\ ~aborted
  /\ \E b \in StreamableBlocks :
       LET s1 == [Cur EXCEPT !.content = Append(@, b)]
       IN Becomes(streamEvent(s1, BlockStartEvent(Len(s1.content), b)))
  /\ nBlocks' = IF nBlocks < MaxBlocks /\ modelCalls <= MaxRichTurns
                  THEN nBlocks + 1 ELSE nBlocks
  /\ UNCHANGED <<backend, body, callers, twin, heartbeats, resClosed, nDeltas,
                 connected, child, childStarted, childErrored, nEchoes>>

\* the model stream sends a text delta of the text block it is in
ApiTextDelta ==
  /\ pc = "stream"
  /\ ~aborted
  /\ nDeltas < MaxDeltas
  /\ content # <<>>
  /\ content[Len(content)].type = "text"
  /\ \E d \in DeltaTexts :
       LET s1 == [Cur EXCEPT !.content = AppendText(@, d)]
       IN Becomes(streamEvent(s1, TextDeltaEvent(Len(s1.content), d)))
  /\ nDeltas' = nDeltas + 1
  /\ UNCHANGED <<backend, body, callers, twin, heartbeats, resClosed, nBlocks,
                 connected, child, childStarted, childErrored, nEchoes>>

\* the first tool_use block of blocks at an index >= from, or 0
RECURSIVE NextToolUse(_, _)
NextToolUse(blocks, from) ==
  IF from > Len(blocks) THEN 0
  ELSE IF blocks[from].type = "tool_use" THEN from
  ELSE NextToolUse(blocks, from + 1)

\* callMcpTool up to its await: ensureConnected() returns at once on a set client,
\* then client.callTool({ name, arguments }) is issued
callMcpTool(s, name) ==
  [s EXCEPT !.gatewayLog = Append(@, [name |-> name, status |-> "pending", text |-> ""])]

\* a faulty lookup, for comparison: a new identifier is drawn for every block
ToolCallIdFresh(s, i) == s.nextId + 1

\* toolCallIds.get(response.content.indexOf(block)) ?? crypto.randomUUID()
ToolCallIdOf(s, i) == IF MapHas(s.toolCallIds, i) THEN s.toolCallIds[i] ELSE s.nextId

\* a faulty tool loop, for comparison: the calls are issued without being awaited
RECURSIVE toolLoopNoAwait(_, _)
toolLoopNoAwait(s, from) ==
  LET i == NextToolUse(s.content, from)
  IN IF i = 0
       THEN loop([s EXCEPT !.apiMessages =
                    Append(@, [role |-> "user", content |-> s.toolResults])])
       ELSE LET id == ToolCallIdOf(s, i)
                block == s.content[i]
            IN toolLoopNoAwait(
                 callMcpTool(writePart(s, ToolInputAvailable(id, block.name, block.data)),
                             block.name), i + 1)

\* for (const block of response.content) from index `from`, up to the next await;
\* after the last block: apiMessages.push({ role: 'user', content: toolResults })
toolLoop(s, from) ==
  LET i == NextToolUse(s.content, from)
  IN IF i = 0
       THEN loop([s EXCEPT !.apiMessages =
                    Append(@, [role |-> "user", content |-> s.toolResults])])
       ELSE LET id == ToolCallIdOf(s, i)
                s1 == [s EXCEPT !.nextId = IF MapHas(s.toolCallIds, i) THEN @ ELSE @ + 1,
                                !.toolIdx = i, !.toolCallId = id, !.pc = "toolCall"]
                block == s.content[i]
            IN callMcpTool(writePart(s1, ToolInputAvailable(id, block.name, block.data)),
                           block.name)

\* a faulty tool branch, for comparison: the assistant turn replaces the turn list
finalMessageResetsTurns(s, stop_reason) ==
  LET s1 == endStep([s EXCEPT !.stopReason = stop_reason])
  IN IF s1.closed THEN finish(s1)
     ELSE IF stop_reason = "tool_use"
       THEN toolLoop([s1 EXCEPT !.apiMessages =
                        <<[role |-> "assistant", content |-> s.content]>>,
                                !.toolResults = <<>>], 1)
       ELSE finish(s1)

\* a faulty tool branch, for comparison: endStep() is not called before the tools run
finalMessageKeepsStepOpen(s, stop_reason) ==
  LET s1 == [s EXCEPT !.stopReason = stop_reason]
  IN IF s1.closed THEN finish(s1)
     ELSE IF stop_reason = "tool_use"
       THEN toolLoop([s1 EXCEPT !.apiMessages =
                        Append(@, [role |-> "assistant", content |-> s.content]),
                                !.toolResults = <<>>], 1)
       ELSE finish(endStep(s1))

\* a faulty branch, for comparison: the tools run whenever the message holds a
\* tool_use block, whatever the stop reason
finalMessageRunsAnyToolUse(s, stop_reason) ==
  LET s1 == endStep([s EXCEPT !.stopReason = stop_reason])
  IN IF s1.closed THEN finish(s1)
     ELSE IF NextToolUse(s.content, 1) # 0
       THEN toolLoop([s1 EXCEPT !.apiMessages =
                        Append(@, [role |-> "assistant", content |-> s.content]),
                                !.toolResults = <<>>], 1)
       ELSE finish(s1)

\* const response = await stream.finalMessage() resolved, down to the next await
finalMessage(s, stop_reason) ==
  LET s1 == endStep([s EXCEPT !.stopReason = stop_reason])
  IN IF s1.closed THEN finish(s1)
     ELSE IF stop_reason = "tool_use"
       THEN toolLoop([s1 EXCEPT !.apiMessages =
                        Append(@, [role |-> "assistant", content |-> s.content]),
                                !.toolResults = <<>>], 1)
       ELSE finish(s1)

\* the model turn ends and stream.finalMessage() resolves
ApiFinalMessage ==
  /\ pc = "stream"
  /\ ~aborted
  /\ \E r \in StopReasons :
       /\ r = "tool_use" => NextToolUse(content, 1) # 0
       /\ Becomes(finalMessage(Cur, r))
  /\ UNCHANGED envVars

\* stream.finalMessage() rejects: an upstream error, or the abort of the controller
ApiStreamError ==
  /\ pc = "stream"
  /\ \E m \in (IF aborted THEN {AbortMessage} ELSE ErrorMessages) :
       Becomes(catch(Cur, m))
  /\ UNCHANGED envVars

\* callMcpTool's flattening of result.content
FlattenContent(c) == IF c.kind = "parts" THEN JoinText(c.parts) ELSE c.text

\* a faulty catch, for comparison: the message is used without the "Error: " prefix
ToolOutputBareMessage(outcome) ==
  IF outcome.threw THEN outcome.message ELSE FlattenContent(outcome.content)

\* try { output = await callMcpTool(...) } catch (err) { output = `Error: ${message}` }
ToolOutput(outcome) ==
  IF outcome.threw THEN "Error: " \o outcome.message
  ELSE FlattenContent(outcome.content)

ToolOutcomes ==
  {[threw |-> FALSE, message |-> "", content |-> c] : c \in ToolContents}
  \cup {[threw |-> TRUE, message |-> m, content |-> [kind |-> "string", text |-> ""]] :
          m \in ErrorMessages}

ToolResultBlock(tool_use_id, output) ==
  [type |-> "tool_result", id |-> tool_use_id, name |-> "", data |-> output]

\* a faulty collection, for comparison: unshift instead of push
PushResultFront(results, r) == <<r>> \o results

\* toolResults.push({ type: 'tool_result', tool_use_id: block.id, content: output })
PushResult(results, r) == Append(results, r)

\* a faulty collection, for comparison: the result is paired to the toolCallId of the
\* frames, not to the block's id
toolDonePairsToolCallId(s, outcome) ==
  LET output == ToolOutput(outcome)
      s1 == writePart(s, ToolOutputAvailable(s.toolCallId, output))
      s2 == [s1 EXCEPT !.toolResults =
               PushResult(@, ToolResultBlock(s.toolCallId, output))]
  IN toolLoop(s2, s.toolIdx + 1)

\* the awaited callMcpTool settled: tool-output-available, toolResults.push, next block
toolDone(s, outcome) ==
  LET output == ToolOutput(outcome)
      s1 == writePart(s, ToolOutputAvailable(s.toolCallId, output))
      s2 == [s1 EXCEPT !.toolResults =
               PushResult(@, ToolResultBlock(s.content[s.toolIdx].id, output))]
  IN toolLoop(s2, s.toolIdx + 1)

\* the gateway answers (or fails) the tool call in flight; the calls made once the
\* request's budget of blocks is used up are answered
ApiToolDone ==
  /\ pc = "toolCall"
  /\ \E o \in ToolOutcomes :
       /\ content[toolIdx].id > ProviderId(MaxBlocks) => ~o.threw
       /\ LET k == Len(gatewayLog)
              s1 == [Cur EXCEPT !.gatewayLog[k] =
                       [@ EXCEPT !.status = IF o.threw THEN "threw" ELSE "ok",
                                 !.text = IF o.threw THEN o.message
                                          ELSE FlattenContent(o.content)]]
          IN Becomes(toolDone(s1, o))
  /\ UNCHANGED envVars

\* a faulty close handler, for comparison: it aborts whether or not the request
\* had finished
apiResCloseAlwaysAborts(s) ==
  [s EXCEPT !.heartbeatOn = FALSE, !.closed = TRUE, !.aborted = TRUE]

\* res.on('close', ...) of the API variant
apiResClose(s) ==
  LET s1 == [s EXCEPT !.heartbeatOn = FALSE]
  IN IF ~s1.closed THEN [s1 EXCEPT !.closed = TRUE, !.aborted = TRUE] ELSE s1

\* the response stream closes: the client went away, or the ended response is torn down
ApiResClose ==
  /\ backend = "api"
  /\ pc \notin {"idle", "rejected"}
  /\ ~resClosed
  /\ resClosed' = TRUE
  /\ Becomes(apiResClose(Cur))
  /\ UNCHANGED <<backend, body, callers, twin, heartbeats, nBlocks, nDeltas,
                 connected, child, childStarted, childErrored, nEchoes>>

\* setInterval(() => { if (!closed) res.write(': heartbeat\n\n') }, 2000)
Heartbeat ==
  /\ heartbeatOn
  /\ heartbeats < MaxHeartbeats
  /\ heartbeats' = IF ~closed THEN heartbeats + 1 ELSE heartbeats
  /\ Becomes(Cur)
  /\ UNCHANGED <<backend, body, callers, twin, resClosed, nBlocks, nDeltas,
                 connected, child, childStarted, childErrored, nEchoes>>

----------------------------------------------------------------------------
(* CLI variant: app.post('/api/chat') *)

\* tool names as the subprocess prints them, split at "__"
RawNames == {<<"mcp", "neo4j", "execute_cypher">>}

RECURSIVE JoinSegments(_)
JoinSegments(segs) ==
  IF Len(segs) = 1 THEN segs[1] ELSE segs[1] \o "__" \o JoinSegments(Tail(segs))

\* rawName.replace(/^mcp__\w+__/, ''): the greedy \w+ runs to the last "__"
StripMcpPrefix(segs) ==
  IF Len(segs) >= 3 /\ segs[1] = "mcp" THEN segs[Len(segs)] ELSE JoinSegments(segs)

RECURSIVE JoinTurns(_)
JoinTurns(ms) ==
  IF ms = <<>> THEN ""
  ELSE (IF Head(ms).role = "user" THEN "Human" ELSE "Assistant") \o ": "
       \o extractText(Head(ms))
       \o (IF Len(ms) = 1 THEN "" ELSE "\n\n" \o JoinTurns(Tail(ms)))

formatPrompt(messages) ==
  IF Len(messages) = 1 THEN extractText(messages[1]) ELSE JoinTurns(messages)

NoDelta == [type |-> "", text |-> "", stop_reason |-> ""]

\* one parsed line of the subprocess's stdout
CliEvent(t, et, b, d, c) ==
  [type |-> t, event |-> [type |-> et, content_block |-> b, delta |-> d], content |-> c]

\* tool_result content: a string, or an array of typed parts
ResultContents ==
  { [kind |-> "string", text |-> "3 rows", parts |-> <<>>],
    [kind |-> "parts", text |-> "",
     parts |-> <<[type |-> "text", text |-> "3 "], [type |-> "image", text |-> "png"],
                 [type |-> "text", text |-> "rows"]>>] }

RECURSIVE JoinTextParts(_)
JoinTextParts(ps) ==
  IF ps = <<>> THEN ""
  ELSE (IF Head(ps).type = "text" THEN Head(ps).text ELSE "") \o JoinTextParts(Tail(ps))

\* the output of a tool_result block
ResultOutput(c) ==
  IF c.kind = "parts" THEN JoinTextParts(c.parts)
  ELSE IF c.kind = "string" THEN c.text
  ELSE ""

\* a faulty handling of an assistant message, for comparison: a tool_use block whose
\* identifier is not in the map is given a new toolCallId
RECURSIVE assistantBlocksUnchecked(_, _)
assistantBlocksUnchecked(s, blocks) ==
  IF blocks = <<>> THEN s
  ELSE LET block == Head(blocks)
           s1 == IF block.type = "tool_use"
                   THEN writePart(s, ToolInputAvailable(
                                       IF MapHas(s.toolCalls, block.id)
                                         THEN s.toolCalls[block.id] ELSE s.nextId,
                                       StripMcpPrefix(block.name), block.data))
                   ELSE s
       IN assistantBlocksUnchecked(s1, Tail(blocks))

\* for (const block of event.message.content) of an assistant message
RECURSIVE assistantBlocks(_, _)
assistantBlocks(s, blocks) ==
  IF blocks = <<>> THEN s
  ELSE LET block == Head(blocks)
           s1 == IF block.type = "tool_use" /\ MapHas(s.toolCalls, block.id)
                   THEN writePart(s, ToolInputAvailable(s.toolCalls[block.id],
                                                        StripMcpPrefix(block.name),
                                                        block.data))
                   ELSE s
       IN assistantBlocks(s1, Tail(blocks))

\* for (const block of event.message.content) of a user message
RECURSIVE userBlocks(_, _)
userBlocks(s, blocks) ==
  IF blocks = <<>> THEN s
  ELSE LET block == Head(blocks)
           s1 == IF block.type = "tool_result" /\ MapHas(s.toolCalls, block.id)
                   THEN writePart(s, ToolOutputAvailable(s.toolCalls[block.id],
                                                         ResultOutput(block.data)))
                   ELSE s
       IN userBlocks(s1, Tail(blocks))

\* the 'result' branch of processEvent
cliResult(s) ==
  [writePart(writePart(endStep(s), Finish), Done)
     EXCEPT !.resEnded = TRUE, !.closed = TRUE, !.heartbeatOn = FALSE]

\* function processEvent(event)
processEvent(s, event) ==
  IF s.closed THEN s
  ELSE IF event.type = "stream_event"
    THEN LET e == event.event
         IN IF e.type = "content_block_start" /\ e.content_block.type = "tool_use"
              THEN LET id == s.nextId
                       s1 == [s EXCEPT !.nextId = @ + 1,
                                       !.toolCalls = MapSet(@, e.content_block.id, id)]
                   IN writePart(ensureStep(s1),
                                ToolInputStart(id, StripMcpPrefix(e.content_block.name)))
            ELSE IF e.type = "content_block_start" /\ e.content_block.type = "text"
              THEN LET s1 == ensureStep(s)
                       id == s1.nextId
                   IN writePart([s1 EXCEPT !.nextId = @ + 1, !.activeTextId = id],
                                TextStart(id))
            ELSE IF e.type = "content_block_delta" /\ e.delta.type = "text_delta"
                    /\ e.delta.text # ""
              THEN IF s.activeTextId # 0
                     THEN writePart(s, TextDelta(s.activeTextId, e.delta.text))
                     ELSE s
            ELSE IF e.type = "message_delta" /\ e.delta.stop_reason = "tool_use"
              THEN endStep(s)
            ELSE s
  ELSE IF event.type = "assistant" /\ event.content # <<>>
    THEN assistantBlocks(s, event.content)
  ELSE IF event.type = "user" /\ event.content # <<>>
    THEN userBlocks(s, event.content)
  ELSE IF event.type = "result"
    THEN cliResult(s)
  ELSE s

\* child.stdout.on('data', ...) for a chunk that holds one line
stdoutData(s, line) ==
  IF s.closed THEN s
  ELSE IF line.json THEN processEvent(s, line.event)
  ELSE s

\* the request arrives: validation, formatPrompt, SSE setup, spawn, start, heartbeat
CliRequest ==
  /\ backend = "cli"
  /\ pc = "idle"
  /\ IF ~ValidBody(body)
       THEN /\ Becomes([Cur EXCEPT !.status = 400, !.pc = "rejected"])
            /\ child' = child
       ELSE /\ Becomes(writePart([Cur EXCEPT !.status = 200, !.heartbeatOn = TRUE,
                                             !.prompt = formatPrompt(body.list),
                                             !.pc = "cli"], Start))
            /\ child' = "running"
  /\ UNCHANGED <<backend, body, callers, twin, heartbeats, resClosed, nBlocks, nDeltas,
                 connected, childStarted, childErrored, nEchoes>>

\* the subprocess can print: it was spawned and has not exited
CliEmits == child = "running" /\ ~(childErrored /\ ~childStarted)

\* Once closed, stdoutData drops every line at its first test, whatever the line
\* holds: CliResultEvent and CliOtherLine stand for the lines that arrive then.
CliListens == CliEmits /\ ~closed

NoEventBlock == [type |-> "none", id |-> 0, name |-> <<"">>, data |-> ""]

\* the subprocess prints a content_block_start event
CliBlockStart ==
  /\ CliListens
  /\ nBlocks < MaxBlocks
  /\ \E b \in {[type |-> "text", id |-> 0, name |-> <<"">>, data |-> ""]} \cup
              {[type |-> "tool_use", id |-> ProviderId(nBlocks + 1), name |-> n,
                data |-> ToolInput(ProviderId(nBlocks + 1))] : n \in RawNames} :
       LET s1 == [Cur EXCEPT !.content = Append(@, b)]
           ev == CliEvent("stream_event", "content_block_start", b, NoDelta, <<>>)
       IN Becomes(stdoutData(s1, [json |-> TRUE, event |-> ev]))
  /\ nBlocks' = nBlocks + 1
  /\ childStarted' = TRUE
  /\ UNCHANGED <<backend, body, callers, twin, heartbeats, resClosed, nDeltas,
                 connected, child, childErrored, nEchoes>>

\* the subprocess prints a text delta of the text block it is in
CliTextDelta ==
  /\ CliListens
  /\ nDeltas < MaxDeltas
  /\ content # <<>>
  /\ content[Len(content)].type = "text"
  /\ \E d \in DeltaTexts :
       LET ev == CliEvent("stream_event", "content_block_delta", NoEventBlock,
                          [type |-> "text_delta", text |-> d, stop_reason |-> ""], <<>>)
       IN Becomes(stdoutData(Cur, [json |-> TRUE, event |-> ev]))
  /\ nDeltas' = nDeltas + 1
  /\ childStarted' = TRUE
  /\ UNCHANGED <<backend, body, callers, twin, heartbeats, resClosed, nBlocks,
                 connected, child, childErrored, nEchoes>>

\* the subprocess prints the message_delta that ends a model turn
CliMessageDelta ==
  /\ CliListens
  /\ content # <<>>
  /\ \E r \in StopReasons :
       LET s1 == [Cur EXCEPT !.content = <<>>]
           ev == CliEvent("stream_event", "message_delta", NoEventBlock,
                          [type |-> "", text |-> "", stop_reason |-> r], <<>>)
       IN Becomes(stdoutData(s1, [json |-> TRUE, event |-> ev]))
  /\ childStarted' = TRUE
  /\ UNCHANGED <<backend, body, callers, twin, heartbeats, resClosed, nBlocks, nDeltas,
                 connected, child, childErrored, nEchoes>>

\* a tool_use block whose content_block_start the handler has not seen
ForeignBlock ==
  [type |-> "tool_use", id |-> ProviderId(0), name |-> <<"mcp", "neo4j", "get_schema">>,
   data |-> ToolInput(ProviderId(0))]

\* the subprocess prints the complete assistant message of the turn it is in
CliAssistant ==
  /\ CliListens
  /\ nEchoes < MaxEchoes
  /\ \E blocks \in {content, <<ForeignBlock>>} :
       LET ev == CliEvent("assistant", "", NoEventBlock, NoDelta, blocks)
       IN Becomes(stdoutData(Cur, [json |-> TRUE, event |-> ev]))
  /\ nEchoes' = nEchoes + 1
  /\ childStarted' = TRUE
  /\ UNCHANGED <<backend, body, callers, twin, heartbeats, resClosed, nBlocks, nDeltas,
                 connected, child, childErrored>>

\* the subprocess prints a user message: the result of a tool it ran between two turns
CliUser ==
  /\ CliListens
  /\ nEchoes < MaxEchoes
  /\ content = <<>>
  /\ \E i \in (DOMAIN toolCalls) \cup {ProviderId(0)}, c \in ResultContents :
       LET b == [type |-> "tool_result", id |-> i, name |-> <<"">>, data |-> c]
           ev == CliEvent("user", "", NoEventBlock, NoDelta, <<b>>)
       IN Becomes(stdoutData(Cur, [json |-> TRUE, event |-> ev]))
  /\ nEchoes' = nEchoes + 1
  /\ childStarted' = TRUE
  /\ UNCHANGED <<backend, body, callers, twin, heartbeats, resClosed, nBlocks, nDeltas,
                 connected, child, childErrored>>

\* the subprocess prints its final result event
CliResultEvent ==
  /\ CliEmits
  /\ LET ev == CliEvent("result", "", NoEventBlock, NoDelta, <<>>)
     IN Becomes(stdoutData(Cur, [json |-> TRUE, event |-> ev]))
  /\ childStarted' = TRUE
  /\ UNCHANGED <<backend, body, callers, twin, heartbeats, resClosed, nBlocks, nDeltas,
                 connected, child, childErrored, nEchoes>>

\* the subprocess prints a line that is not JSON, or an event of an unknown type
CliOtherLine ==
  /\ CliEmits
  /\ \E line \in {[json |-> FALSE, event |-> CliEvent("", "", NoEventBlock, NoDelta, <<>>)],
                  [json |-> TRUE,
                   event |-> CliEvent("system", "", NoEventBlock, NoDelta, <<>>)],
                  [json |-> TRUE,
                   event |-> CliEvent("stream_event", "message_start", NoEventBlock,
                                      NoDelta, <<>>)]} :
       Becomes(stdoutData(Cur, line))
  /\ childStarted' = TRUE
  /\ UNCHANGED <<backend, body, callers, twin, heartbeats, resClosed, nBlocks, nDeltas,
                 connected, child, childErrored, nEchoes>>

\* how the subprocess ends: an exit code, or null when a signal ended it
ExitCodes == {[null |-> FALSE, code |-> 0], [null |-> FALSE, code |-> 1],
              [null |-> TRUE, code |-> 0]}

\* a faulty exit handler, for comparison: no `if (closed) return` before the frames
childCloseUnguarded(s, code) ==
  LET s2 == [s EXCEPT !.heartbeatOn = FALSE, !.closed = TRUE]
      s3 == IF code.code # 0 /\ ~code.null
              THEN writePart(s2, ErrorFrame("claude exited with code "
                                            \o ToString(code.code)))
              ELSE s2
  IN [writePart(writePart(endStep(s3), Finish), Done) EXCEPT !.resEnded = TRUE]

\* child.on('close', (code) => ...)
childClose(s, code) ==
  LET s1 == [s EXCEPT !.heartbeatOn = FALSE]
  IN IF s1.closed THEN s1
     ELSE LET s2 == [s1 EXCEPT !.closed = TRUE]
              s3 == IF code.code # 0 /\ ~code.null
                      THEN writePart(s2, ErrorFrame("claude exited with code "
                                                    \o ToString(code.code)))
                      ELSE s2
          IN [writePart(writePart(endStep(s3), Finish), Done) EXCEPT !.resEnded = TRUE]

\* the subprocess has exited and its stdio streams are closed
ChildClose ==
  /\ child = "running"
  /\ child' = "closed"
  /\ \E code \in ExitCodes : Becomes(childClose(Cur, code))
  /\ UNCHANGED <<backend, body, callers, twin, heartbeats, resClosed, nBlocks, nDeltas,
                 connected, childStarted, childErrored, nEchoes>>

\* child.on('error', (err) => ...)
childError(s, message) ==
  LET s1 == [s EXCEPT !.heartbeatOn = FALSE]
  IN IF s1.closed THEN s1
     ELSE [writePart(writePart([s1 EXCEPT !.closed = TRUE], ErrorFrame(message)), Done)
             EXCEPT !.resEnded = TRUE]

\* the subprocess could not be spawned, or could not be killed
ChildError ==
  /\ child = "running"
  /\ ~childErrored
  /\ ~childStarted \/ sigterms > 0
  /\ childErrored' = TRUE
  /\ \E m \in ErrorMessages : Becomes(childError(Cur, m))
  /\ UNCHANGED <<backend, body, callers, twin, heartbeats, resClosed, nBlocks, nDeltas,
                 connected, child, childStarted, nEchoes>>

\* res.on('close', ...) of the CLI variant; child.killed is set by a kill() that was sent
cliResClose(s) ==
  LET s1 == [s EXCEPT !.heartbeatOn = FALSE]
  IN IF ~s1.closed
       THEN LET s2 == [s1 EXCEPT !.closed = TRUE]
            IN IF s2.sigterms = 0 THEN [s2 EXCEPT !.sigterms = @ + 1] ELSE s2
       ELSE s1

\* the response stream closes: the client went away, or the ended response is torn down
CliResClose ==
  /\ backend = "cli"
  /\ pc = "cli"
  /\ ~resClosed
  /\ resClosed' = TRUE
  /\ Becomes(cliResClose(Cur))
  /\ UNCHANGED <<backend, body, callers, twin, heartbeats, nBlocks, nDeltas,
                 connected, child, childStarted, childErrored, nEchoes>>

----------------------------------------------------------------------------
(* mcp.ts under several callers: the getMcpTools() and callMcpTool() calls of
   requests that are served at the same time *)

\* the request handler's own variables, which the adapter does not touch
requestVars == <<backend, body, pc, status, closed, heartbeatOn, heartbeats, resEnded,
                 resClosed, out, inStep, activeTextId, nextId, nBlocks, nDeltas, aborted,
                 apiMessages, iterations, modelCalls, toolCallIds, content, stopReason,
                 tools, toolIdx, toolCallId, toolResults, toolCalls, child, childStarted,
                 childErrored, sigterms, nEchoes, prompt, twin>>

AdapterOps == {"getMcpTools", "callMcpTool"}

\* the code after `await ensureConnected()`: getMcpTools returns toolsCache,
\* callMcpTool issues client.callTool (pc "callTool": the call is in flight)
afterEnsure(c, k, cache, isReady) ==
  callers' = [callers EXCEPT ![c] =
                IF k.op = "getMcpTools"
                  THEN [k EXCEPT !.pc = "returned", !.got = cache, !.ready = isReady]
                  ELSE [k EXCEPT !.pc = "callTool", !.ready = isReady]]

\* a caller enters getMcpTools() or callMcpTool(): ensureConnected up to its first await
McpCallerCalls ==
  /\ \E c \in Callers, op \in AdapterOps :
       /\ callers[c].pc \in {"idle", "returned", "threw"}
       /\ callers[c].calls < MaxCalls
       /\ LET k == [IdleCaller EXCEPT !.op = op, !.calls = callers[c].calls + 1,
                                      !.cached = toolsCache.set,
                                      !.name = IF op = "callMcpTool"
                                                 THEN "execute_cypher" ELSE ""]
          IN IF NeedsConnect(Cur)
               THEN /\ client' = TRUE
                    /\ connects' = connects + 1
                    /\ callers' = [callers EXCEPT ![c] = [k EXCEPT !.pc = "connect"]]
               ELSE /\ afterEnsure(c, k, toolsCache, connected /\ toolsCache.set)
                    /\ UNCHANGED <<client, connects>>
  /\ UNCHANGED <<connected, toolsCache, listCalls, gatewayLog>>
  /\ UNCHANGED requestVars

\* await client.connect(transport) of the connecting caller settles
McpCallerConnected ==
  /\ \E c \in Callers :
       /\ callers[c].pc = "connect"
       /\ \/ /\ connected' = TRUE
             /\ listCalls' = listCalls + 1
             /\ callers' = [callers EXCEPT ![c].pc = "list"]
          \/ /\ callers' = [callers EXCEPT ![c].pc = "threw"]
             /\ UNCHANGED <<connected, listCalls>>
  /\ UNCHANGED <<client, connects, toolsCache, gatewayLog>>
  /\ UNCHANGED requestVars

\* await client.listTools() of the connecting caller settles
McpCallerListed ==
  /\ \E c \in Callers :
       /\ callers[c].pc = "list"
       /\ \/ LET cache == [set |-> TRUE, tools |-> FilterCatalog(GatewayCatalog)]
             IN /\ toolsCache' = cache
                /\ afterEnsure(c, callers[c], cache, connected)
          \/ /\ callers' = [callers EXCEPT ![c].pc = "threw"]
             /\ UNCHANGED toolsCache
  /\ UNCHANGED <<client, connected, connects, listCalls, gatewayLog>>
  /\ UNCHANGED requestVars

\* await client.callTool(...) settles
McpCallerAnswered ==
  /\ \E c \in Callers, ok \in BOOLEAN :
       /\ callers[c].pc = "callTool"
       /\ ~(connected /\ toolsCache.set) => ~ok
       /\ callers' = [callers EXCEPT ![c].pc = IF ok THEN "returned" ELSE "threw"]
  /\ UNCHANGED <<client, connected, connects, toolsCache, listCalls, gatewayLog>>
  /\ UNCHANGED requestVars

----------------------------------------------------------------------------
(* Both variants fed alike: each model event is given to the API variant's handler
   (the request's variables) and, in the form the subprocess prints it, to the CLI
   variant's handler (twin) *)

\* a content block as the subprocess names it
ToCliBlock(b) ==
  [type |-> b.type, id |-> b.id,
   name |-> IF b.type = "tool_use" THEN <<"mcp", "neo4j", b.name>> ELSE <<"">>,
   data |-> b.data]

CliLine(ev) == [json |-> TRUE, event |-> ev]

\* the complete assistant message that carries one tool_use block
AssistantLine(b) ==
  CliLine(CliEvent("assistant", "", NoEventBlock, NoDelta, <<ToCliBlock(b)>>))

\* the user message that carries the result of the tool request with provider id pid
UserLine(pid, c) ==
  CliLine(CliEvent("user", "", NoEventBlock, NoDelta,
                   <<[type |-> "tool_result", id |-> pid, name |-> <<"">>, data |-> c]>>))

MessageDeltaLine(r) ==
  CliLine(CliEvent("stream_event", "message_delta", NoEventBlock,
                   [type |-> "", text |-> "", stop_reason |-> r], <<>>))

\* child.stdout.on('data', ...) for each of the lines in turn
RECURSIVE cliFeed(_, _)
cliFeed(s, lines) ==
  IF lines = <<>> THEN s ELSE cliFeed(stdoutData(s, Head(lines)), Tail(lines))

\* what the request handler and the adapter do not assign when fed in step
bothEnv == <<backend, body, callers, heartbeats, resClosed, nDeltas, connected, child,
             childStarted, childErrored, nEchoes>>

\* the same request reaches both variants
BothRequest ==
  /\ pc = "idle"
  /\ twin = NoTwin
  /\ Becomes(start([Cur EXCEPT !.status = 200, !.heartbeatOn = TRUE]))
  /\ twin' = writePart([Cur EXCEPT !.status = 200, !.heartbeatOn = TRUE,
                                   !.prompt = formatPrompt(body.list), !.pc = "cli"],
                       Start)
  /\ UNCHANGED bothEnv
  /\ UNCHANGED nBlocks

\* the model starts a content block
BothBlockStart ==
  /\ pc = "stream"
  /\ \E b \in {x \in StreamableBlocks : x.type = "text" \/ x.name = "execute_cypher"} :
       /\ LET s1 == [Cur EXCEPT !.content = Append(@, b)]
          IN Becomes(streamEvent(s1, BlockStartEvent(Len(s1.content), b)))
       /\ twin' = cliFeed(twin, <<CliLine(CliEvent("stream_event", "content_block_start",
                                                  ToCliBlock(b), NoDelta, <<>>))>>)
  /\ nBlocks' = IF nBlocks < MaxBlocks /\ modelCalls <= MaxRichTurns
                  THEN nBlocks + 1 ELSE nBlocks
  /\ UNCHANGED bothEnv

\* the model streams a text delta of the text block it is in
BothTextDelta ==
  /\ pc = "stream"
  /\ nDeltas < MaxDeltas
  /\ content # <<>>
  /\ content[Len(content)].type = "text"
  /\ \E d \in DeltaTexts :
       /\ LET s1 == [Cur EXCEPT !.content = AppendText(@, d)]
          IN Becomes(streamEvent(s1, TextDeltaEvent(Len(s1.content), d)))
       /\ twin' = cliFeed(twin,
                          <<CliLine(CliEvent("stream_event", "content_block_delta",
                                             NoEventBlock,
                                             [type |-> "text_delta", text |-> d,
                                              stop_reason |-> ""], <<>>))>>)
  /\ nDeltas' = nDeltas + 1
  /\ UNCHANGED <<backend, body, callers, heartbeats, resClosed, nBlocks, connected,
                 child, childStarted, childErrored, nEchoes>>

\* the model turn ends asking for tools; the subprocess prints the end of the turn
\* and the complete message of the first tool request
BothTurnToolUse ==
  /\ pc = "stream"
  /\ NextToolUse(content, 1) # 0
  /\ Becomes(finalMessage(Cur, "tool_use"))
  /\ twin' = cliFeed(twin, <<MessageDeltaLine("tool_use"),
                             AssistantLine(content[NextToolUse(content, 1)])>>)
  /\ UNCHANGED bothEnv
  /\ UNCHANGED nBlocks

\* the tool answers; the subprocess prints the result and, if the turn asks for
\* another tool, the complete message of that request
BothToolResult ==
  /\ pc = "toolCall"
  /\ \E c \in ToolContents :
       LET k == Len(gatewayLog)
           s1 == [Cur EXCEPT !.gatewayLog[k] =
                    [@ EXCEPT !.status = "ok", !.text = FlattenContent(c)]]
           more == NextToolUse(content, toolIdx + 1)
       IN /\ Becomes(toolDone(s1, [threw |-> FALSE, message |-> "", content |-> c]))
          /\ twin' = cliFeed(twin,
                             <<UserLine(content[toolIdx].id,
                                        [kind |-> "parts", text |-> "", parts |-> c.parts])>>
                             \o (IF more # 0 THEN <<AssistantLine(content[more])>>
                                  ELSE <<>>))
  /\ UNCHANGED bothEnv
  /\ UNCHANGED nBlocks

\* the model turn ends without asking for tools: the run is complete
BothTurnDone ==
  /\ pc = "stream"
  /\ Becomes(finalMessage(Cur, "end_turn"))
  /\ twin' = cliFeed(twin, <<MessageDeltaLine("end_turn"),
                             CliLine(CliEvent("result", "", NoEventBlock, NoDelta, <<>>))>>)
  /\ UNCHANGED bothEnv
  /\ UNCHANGED nBlocks

\* the upstream fails: the model call rejects; the subprocess exits with code 1 or,
\* before it printed anything, could not be spawned
BothUpstreamFailure ==
  /\ pc = "stream"
  /\ \E m \in ErrorMessages :
       /\ Becomes(catch(Cur, m))
       /\ \/ twin' = childClose(twin, [null |-> FALSE, code |-> 1])
          \/ /\ Len(twin.out) = 1
             /\ twin' = childError(twin, m)
  /\ UNCHANGED bothEnv
  /\ UNCHANGED nBlocks

----------------------------------------------------------------------------

NextApi ==
  \/ ApiRequest
  \/ McpConnectDone
  \/ McpListDone
  \/ ApiBlockStart
  \/ ApiTextDelta
  \/ ApiFinalMessage
  \/ ApiStreamError
  \/ ApiToolDone
  \/ ApiResClose
  \/ Heartbeat

NextCli ==
  \/ CliRequest
  \/ CliBlockStart
  \/ CliTextDelta
  \/ CliMessageDelta
  \/ CliAssistant
  \/ CliUser
  \/ CliResultEvent
  \/ CliOtherLine
  \/ ChildClose
  \/ ChildError
  \/ CliResClose
  \/ Heartbeat

Next == NextApi \/ NextCli

Spec == Init /\ [][Next]_vars

\* the collaborators answer: a connection attempt, a catalog fetch, a model call and
\* a tool call each eventually settle (resolve or reject), and the subprocess
\* eventually prints its result or exits; at most one of them is awaited at a time
Responsive ==
  WF_vars(\/ McpConnectDone
          \/ McpListDone
          \/ ApiFinalMessage
          \/ ApiStreamError
          \/ ApiToolDone
          \/ CliResultEvent
          \/ ChildClose)

\* a request that arrives before the gateway was connected
InitLive == Init /\ ~client

\* a request whose client stays connected: the response does not close, and the
\* collaborators answer
NextLive ==
  \/ ApiRequest
  \/ McpConnectDone
  \/ McpListDone
  \/ ApiBlockStart
  \/ ApiTextDelta
  \/ ApiFinalMessage
  \/ ApiStreamError
  \/ ApiToolDone
  \/ CliRequest
  \/ CliBlockStart
  \/ CliTextDelta
  \/ CliMessageDelta
  \/ CliResultEvent
  \/ CliOtherLine
  \/ ChildClose
  \/ ChildError

SpecLive == InitLive /\ [][NextLive]_vars /\ Responsive

\* one variant at a time
InitApi == Init /\ backend = "api"

InitCli == Init /\ backend = "cli"

SpecApi == InitApi /\ [][NextApi]_vars

SpecCli == InitCli /\ [][NextCli]_vars

\* the API variant serving a request of one user turn
InitSingle ==
  /\ InitRequestWith({SingleTurnBody})
  /\ backend = "api"
  /\ callers = [c \in Callers |-> IdleCaller]
  /\ twin = NoTwin

SpecSingle == InitSingle /\ [][NextApi]_vars

\* both variants fed the same model events, the gateway being connected
InitBoth ==
  /\ InitRequestWith({b \in Bodies : ValidBody(b)})
  /\ backend = "api"
  /\ client
  /\ callers = [c \in Callers |-> IdleCaller]
  /\ twin = NoTwin

NextBoth ==
  \/ BothRequest
  \/ BothBlockStart
  \/ BothTextDelta
  \/ BothTurnToolUse
  \/ BothToolResult
  \/ BothTurnDone
  \/ BothUpstreamFailure

SpecBoth == InitBoth /\ [][NextBoth]_vars

\* the API variant's normalization of request bodies of every shape, the gateway
\* being connected: the request arrives and the turn list is built
InitNorm ==
  /\ InitRequestWith(NormBodies)
  /\ backend = "api"
  /\ client
  /\ callers = [c \in Callers |-> IdleCaller]
  /\ twin = NoTwin

SpecNorm == InitNorm /\ [][ApiRequest]_vars

\* the adapter alone, called by several requests of one process
InitMcp == Init /\ backend = "api" /\ ValidBody(body)

NextMcp ==
  \/ McpCallerCalls
  \/ McpCallerConnected
  \/ McpCallerListed
  \/ McpCallerAnswered

SpecMcp == InitMcp /\ [][NextMcp]_vars

----------------------------------------------------------------------------
(* Reading the frames written *)

HasType(t, f) == f.type = t

CountType(frames, t) == Cardinality({i \in DOMAIN frames : frames[i].type = t})

IsToolUse(b) == b.type = "tool_use"

IsToolInputAvailable(f) == f.type = "tool-input-available"

IsToolOutputAvailable(f) == f.type = "tool-output-available"

ToolUses(blocks) == SelectSeq(blocks, IsToolUse)

Ids(blocks) == [i \in 1..Len(blocks) |-> blocks[i].id]

Datas(blocks) == [i \in 1..Len(blocks) |-> blocks[i].data]

IsPrefix(a, b) == Len(a) <= Len(b) /\ a = SubSeq(b, 1, Len(a))

\* the turns the loop has appended to the conversation
AppendedTurns == {k \in DOMAIN apiMessages : k > Len(body.list)}

\* the tool_use blocks of the assistant turns among the first k turns, in order
RECURSIVE RequestedUpTo(_)
RequestedUpTo(k) ==
  IF k <= Len(body.list) THEN <<>>
  ELSE RequestedUpTo(k - 1)
       \o (IF apiMessages[k].role = "assistant" THEN ToolUses(apiMessages[k].content)
           ELSE <<>>)

\* every start-step is closed by one finish-step before the next start-step and the end
RECURSIVE StepsClosed(_, _)
StepsClosed(frames, open) ==
  IF frames = <<>> THEN ~open
  ELSE IF Head(frames).type = "start-step" THEN ~open /\ StepsClosed(Tail(frames), TRUE)
  ELSE IF Head(frames).type = "finish-step" THEN open /\ StepsClosed(Tail(frames), FALSE)
  ELSE StepsClosed(Tail(frames), open)

\* every text-start id is closed by one text-end of that id before the next start-step
\* and the end; open: the ids started and not ended yet
RECURSIVE TextsClosed(_, _)
TextsClosed(frames, open) ==
  IF frames = <<>> THEN open = {}
  ELSE LET f == Head(frames)
       IN IF f.type = "text-start" THEN TextsClosed(Tail(frames), open \cup {f.id})
          ELSE IF f.type = "text-end"
            THEN f.id \in open /\ TextsClosed(Tail(frames), open \ {f.id})
          ELSE IF f.type = "start-step" THEN open = {} /\ TextsClosed(Tail(frames), open)
          ELSE TextsClosed(Tail(frames), open)

----------------------------------------------------------------------------
(* Claims *)

\* C1: once closed is true, no further protocol frame is written to the response,
\* whether the handler is awaiting the model's final message (streaming) or a tool call.
C1_NoFrameOnceClosed ==
  [][(closed /\ pc \in {"stream", "toolCall"}) => out' = out]_vars

\* C2: the model is invoked at most MAX_ITERATIONS (10) times per request; a model call
\* after the first is made only after a turn that finished with stop reason tool_use and
\* only while fewer than 10 calls were made.
C2_LoopBounded ==
  /\ [](modelCalls <= MAX_ITERATIONS)
  /\ [][modelCalls' # modelCalls =>
          /\ modelCalls' = modelCalls + 1
          /\ modelCalls < MAX_ITERATIONS
          /\ modelCalls = 0 \/ stopReason' = "tool_use"]_vars

C2_Witness == modelCalls = MAX_ITERATIONS /\ pc = "done" /\ resEnded

\* C3: when the stream of a valid request has ended, every start-step frame was
\* followed by exactly one finish-step frame before the next start-step and the end.
C3_StepsClosedAtEnd == resEnded => StepsClosed(out, FALSE)

\* C4: when the stream of a valid request has ended, every text-start frame with id X
\* was followed by exactly one text-end frame with id X before the next start-step;
\* stated for the streams that end without an error frame.
C4_TextsClosedAtEnd ==
  (resEnded /\ CountType(out, "error") = 0) => TextsClosed(out, {})

\* C5: when the awaited tool call throws, the handler writes tool-output-available with
\* output "Error: <message>" for the awaited toolCallId and no error frame, stores the
\* same text as that block's tool_result, goes on to the next tool request of the turn,
\* and after the last one appends the results and (below the ceiling, client still
\* connected) starts the next model call.
C5_ToolFailureIsAResult ==
  [][(pc = "toolCall" /\ Len(gatewayLog') >= Len(gatewayLog)
        /\ gatewayLog'[Len(gatewayLog)].status = "threw")
       => LET text == "Error: " \o gatewayLog'[Len(gatewayLog)].text
              result == ToolResultBlock(content[toolIdx].id, text)
              more == NextToolUse(content, toolIdx + 1)
          IN /\ Len(out') > Len(out)
             /\ out'[Len(out) + 1] = ToolOutputAvailable(toolCallId, text)
             /\ \A i \in (Len(out) + 1)..Len(out') : out'[i].type # "error"
             /\ IF more # 0
                  THEN /\ toolResults' = Append(toolResults, result)
                       /\ pc' = "toolCall"
                       /\ toolIdx' = more
                       /\ Len(gatewayLog') = Len(gatewayLog) + 1
                       /\ gatewayLog'[Len(gatewayLog')].name = content[more].name
                  ELSE /\ apiMessages' =
                            Append(apiMessages,
                                   [role |-> "user", content |-> Append(toolResults, result)])
                       /\ (iterations < MAX_ITERATIONS /\ ~closed)
                            => (pc' = "stream" /\ modelCalls' = modelCalls + 1)]_vars

C5_Witness ==
  /\ Len(gatewayLog) = 2
  /\ gatewayLog[1].status = "threw"
  /\ gatewayLog[2].status = "ok"
  /\ modelCalls = 2
  /\ pc = "stream"
  /\ CountType(out, "error") = 0
  /\ \E i \in DOMAIN out : out[i] = ToolOutputAvailable(out[i].id, "Error: boom")

\* C6: the tool_result entries of every appended user turn are in the order of the
\* tool_use blocks of the assistant turn before it, the results collected so far are
\* a prefix in that order, and the tool-input-available frames follow that order too.
C6_ResultsInRequestOrder ==
  /\ \A k \in AppendedTurns :
       apiMessages[k].role = "user"
         => /\ k - 1 \in AppendedTurns
            /\ apiMessages[k - 1].role = "assistant"
            /\ Ids(apiMessages[k].content) = Ids(ToolUses(apiMessages[k - 1].content))
  /\ pc = "toolCall" => IsPrefix(Ids(toolResults), Ids(ToolUses(content)))
  /\ IsPrefix(Datas(SelectSeq(out, IsToolInputAvailable)),
              Datas(RequestedUpTo(Len(apiMessages))))

C6_Witness ==
  /\ Len(gatewayLog) = 2
  /\ gatewayLog[1].status = "threw"
  /\ gatewayLog[2].status = "ok"
  /\ \E k \in AppendedTurns :
       /\ apiMessages[k].role = "user"
       /\ Len(apiMessages[k].content) = 2
       /\ apiMessages[k].content[1].id # apiMessages[k].content[2].id

\* C7: a response that ended with an error frame (upstream failure, client connected)
\* carries, after the error frame, a finish frame and then the terminal marker last.
C7_ErrorThenFinishThenDone ==
  (resEnded /\ CountType(out, "error") > 0)
    => /\ out[Len(out)] = Done
       /\ \E i, j \in DOMAIN out :
            i < j /\ j < Len(out) /\ out[i].type = "error" /\ out[j] = Finish

\* C8: at most one finish frame and at most one terminal marker are written; a
\* response that was ended carries exactly one marker; a request whose handler is
\* through (the loop is left, or the subprocess has closed) and whose client did not
\* cancel was ended; and closed never goes back from true to false.
C8_SingleTermination ==
  /\ [](/\ CountType(out, "finish") <= 1
        /\ CountType(out, "[DONE]") <= 1
        /\ resEnded => (closed /\ CountType(out, "[DONE]") = 1)
        /\ CountType(out, "[DONE]") = 1 => resEnded
        /\ (pc = "done" /\ ~aborted) => resEnded
        /\ (child = "closed" /\ sigterms = 0) => resEnded)
  /\ [][closed => closed']_vars

C8_Witness ==
  /\ backend = "cli"
  /\ resEnded
  /\ child = "closed"
  /\ resClosed
  /\ CountType(out, "finish") = 1
  /\ CountType(out, "text-start") > 0

\* C9: when the response closes before the request finished, the close handler sets
\* closed, signals cancellation (controller.abort(), or SIGTERM to the subprocess) and
\* clears the keep-alive timer; when it closes after the request finished, it signals
\* no cancellation (and the timer stays cleared).
C9_CloseCancelsOnlyUnfinished ==
  [][(~resClosed /\ resClosed')
       => /\ closed'
          /\ ~heartbeatOn'
          /\ IF ~closed
               THEN IF backend = "api"
                      THEN aborted' /\ sigterms' = sigterms
                      ELSE sigterms' = sigterms + 1 /\ aborted' = aborted
               ELSE aborted' = aborted /\ sigterms' = sigterms]_vars

C9_Witness ==
  /\ resClosed
  /\ ~resEnded
  /\ aborted
  /\ pc = "toolCall"
  /\ ~heartbeatOn

\* C10: the cached catalog and the catalog handed to the model hold only allow-listed
\* names, and every gateway call is for an allow-listed name.
C10_OnlyAllowedTools ==
  /\ toolsCache.tools \subseteq ALLOWED_TOOLS
  /\ tools.tools \subseteq ALLOWED_TOOLS
  /\ \A k \in DOMAIN gatewayLog : gatewayLog[k].name \in ALLOWED_TOOLS

\* C11: while the gateway is unconnected, every caller but the first waits on the first
\* caller's attempt: at most one connection is created, and a caller that has returned
\* from getMcpTools, or has issued its tool call, did so with the connection made and
\* the catalog fetched.
C11_SingleFlight ==
  /\ connects <= 1
  /\ \A c \in Callers :
       callers[c].pc \in {"returned", "callTool"} => callers[c].ready

\* C12: however often and however interleaved getMcpTools is called, client.connect
\* and client.listTools are each called at most once, never again once the catalog is
\* cached, and a call made with the catalog cached returns that cached catalog.
C12_CatalogFetchedOnce ==
  /\ [](/\ connects <= 1
        /\ listCalls <= 1
        /\ \A c \in Callers :
             (callers[c].op = "getMcpTools" /\ callers[c].pc = "returned"
                /\ callers[c].cached)
               => /\ callers[c].got = toolsCache
                  /\ callers[c].got.set
                  /\ callers[c].got.tools = GatewayCatalog \cap ALLOWED_TOOLS)
  /\ [][toolsCache.set => /\ connects' = connects
                          /\ listCalls' = listCalls
                          /\ toolsCache' = toolsCache]_vars

C12_Witness ==
  /\ connects = 1
  /\ listCalls = 1
  /\ \E c, d \in Callers :
       /\ c # d
       /\ callers[c].op = "getMcpTools" /\ callers[c].pc = "returned"
       /\ callers[c].calls = 2 /\ callers[c].cached
       /\ callers[d].op = "getMcpTools" /\ callers[d].pc = "returned"
       /\ callers[d].got.set

\* C13: every tool-input-available and tool-output-available frame carries an
\* identifier that an earlier tool-input-start frame of the request carried (with the
\* same tool name, for tool-input-available); the identifiers of the tool-input-start
\* frames are pairwise distinct; the identifier is the one recorded for that very block
\* when its start was observed (by index in the API variant, by the block's provider
\* id in the CLI variant).  Frames are only ever appended, so it is stated of the
\* frames each step appends.
C13_ToolCallIdReused ==
  /\ [](pc = "toolCall"
          => /\ MapHas(toolCallIds, toolIdx)
             /\ toolCallId = toolCallIds[toolIdx]
             /\ out[Len(out)] = ToolInputAvailable(toolCallId, content[toolIdx].name,
                                                   content[toolIdx].data))
  /\ [][/\ Len(out') >= Len(out)
        /\ SubSeq(out', 1, Len(out)) = out
        /\ \A i \in (Len(out) + 1)..Len(out') :
             /\ out'[i].type \in {"tool-input-available", "tool-output-available"}
                  => \E j \in 1..(i - 1) :
                       /\ out'[j].type = "tool-input-start"
                       /\ out'[j].id = out'[i].id
                       /\ out'[i].type = "tool-input-available"
                            => out'[j].name = out'[i].name
             /\ out'[i].type = "tool-input-start"
                  => \A j \in 1..(i - 1) :
                       out'[j].type = "tool-input-start" => out'[j].id # out'[i].id
             /\ (backend = "cli" /\ out'[i].type = "tool-input-available")
                  => \E pid \in DOMAIN toolCalls' :
                       out'[i].id = toolCalls'[pid] /\ out'[i].data = ToolInput(pid)
        /\ (pc = "toolCall" /\ out' # out)
             => /\ out'[Len(out) + 1].type = "tool-output-available"
                /\ out'[Len(out) + 1].id = toolCallId]_vars

C13_Witness ==
  /\ backend = "api"
  /\ resEnded
  /\ CountType(out, "tool-input-start") = 2
  /\ CountType(out, "tool-input-available") = 2
  /\ CountType(out, "tool-output-available") = 2

\* C14: when the loop is left because the iteration counter passed the ceiling (the
\* model asked for tools in 10 consecutive turns), exactly 10 model calls were made, no
\* error frame was written, and, unless the client had gone, the response was ended
\* with a finish frame (finishReason stop) followed by the terminal marker.
C14_SoftCeiling ==
  /\ iterations <= MAX_ITERATIONS + 1
  /\ iterations > MAX_ITERATIONS
       => /\ pc = "done"
          /\ modelCalls = MAX_ITERATIONS
          /\ stopReason = "tool_use"
          /\ CountType(out, "error") = 0
          /\ ~aborted
               => /\ resEnded
                  /\ CountType(out, "finish") = 1
                  /\ SubSeq(out, Len(out) - 1, Len(out)) = <<Finish, Done>>

C14_Witness ==
  /\ iterations = MAX_ITERATIONS + 1
  /\ ~aborted
  /\ resEnded
  /\ Len(gatewayLog) = MAX_ITERATIONS
  /\ CountType(out, "tool-output-available") = MAX_ITERATIONS

\* the frames of one text block with identifier id and n deltas
TextBlockFrames(id, n) ==
  <<Start, StartStep, TextStart(id)>> \o [k \in 1..n |-> TextDelta(id, "4")]
    \o <<TextEnd(id), FinishStep, Finish>>

\* C15: a request of one user turn, answered by one model turn that streams a single
\* text block with N deltas and ends with a stop reason other than tool_use, produces
\* exactly start, start-step, text-start, N text-delta, text-end, finish-step,
\* finish(stop), followed by the terminal marker.
C15_SingleTextTurnFrames ==
  (/\ body = SingleTurnBody
   /\ resEnded
   /\ modelCalls = 1
   /\ stopReason \notin {"", "tool_use"}
   /\ Len(content) = 1
   /\ content[1].type = "text")
    => /\ Len(content[1].data) = nDeltas
       /\ out = TextBlockFrames(out[3].id, nDeltas) \o <<Done>>

C15_Witness ==
  /\ body = SingleTurnBody
  /\ resEnded
  /\ modelCalls = 1
  /\ stopReason = "end_turn"
  /\ Len(content) = 1
  /\ content[1].data = "4"
  /\ CountType(out, "text-delta") = 1
  /\ Len(out) = 8

\* C16: a request whose messages field is missing, is not an array or is an empty
\* array is answered with status 400 and nothing else happens: no frame, no keep-alive
\* comment, no timer, no model call, no gateway connection or call, no subprocess.
C16_InvalidBodyRejected ==
  (body.kind \in {"missing", "notArray"} \/ Len(body.list) = 0)
    => /\ pc \in {"idle", "rejected"}
       /\ pc = "rejected" <=> status = 400
       /\ status \in {0, 400}
       /\ out = <<>>
       /\ heartbeats = 0
       /\ ~heartbeatOn
       /\ ~resEnded
       /\ modelCalls = 0
       /\ connects = 0
       /\ listCalls = 0
       /\ gatewayLog = <<>>
       /\ child = "none"
       /\ prompt = ""

C16_Witness ==
  /\ body.kind = "array"
  /\ body.list = <<>>
  /\ pc = "rejected"
  /\ status = 400

\* a frame sequence with the text of its error frames left out
ErrorTextBlanked(frames) ==
  [i \in DOMAIN frames |->
     IF frames[i].type = "error" THEN [frames[i] EXCEPT !.data = ""] ELSE frames[i]]

\* C17: fed the same model events, the API variant and the CLI variant have written
\* the same frames: the same kinds in the same order with the same fields (the text
\* of an error frame, which names the upstream's own failure, apart).
C17_SameFraming ==
  twin # NoTwin => ErrorTextBlanked(out) = ErrorTextBlanked(twin.out)

\* C18: a keep-alive comment is written only by the armed timer and only while closed
\* is false, and whenever closed is true the timer has been cleared (so no path sets
\* closed and leaves the timer armed).
C18_KeepAliveOnlyWhileOpen ==
  /\ [](closed => ~heartbeatOn)
  /\ [][heartbeats' # heartbeats
          => /\ heartbeats' = heartbeats + 1
             /\ ~closed
             /\ heartbeatOn
             /\ out' = out]_vars

C18_Witness ==
  /\ heartbeats = MaxHeartbeats
  /\ closed
  /\ resClosed
  /\ ~resEnded
  /\ ~heartbeatOn
  /\ out # <<>>

\* C19: a response that the handler ended carries the terminal marker as its last
\* entry, written right after the finish frame; the step that writes the marker ends
\* the response; and once the response is ended nothing more is written to it,
\* neither a frame nor a keep-alive comment.
C19_MarkerLast ==
  /\ [](resEnded
          => /\ Len(out) >= 2
             /\ out[Len(out)] = Done
             /\ out[Len(out) - 1] = Finish
             /\ CountType(out, "[DONE]") = 1)
  /\ [][/\ CountType(out', "[DONE]") > CountType(out, "[DONE]") => resEnded'
        /\ resEnded => (out' = out /\ heartbeats' = heartbeats)]_vars

\* the text parts of ps joined in order, taken from the last part backwards
RECURSIVE TextOfParts(_)
TextOfParts(ps) ==
  IF Len(ps) = 0 THEN ""
  ELSE TextOfParts(SubSeq(ps, 1, Len(ps) - 1))
       \o (IF ps[Len(ps)].type = "text" THEN ps[Len(ps)].text ELSE "")

\* C20: the turn list handed to the first model call has the length and order of the
\* request's turns; each role is user or assistant (user exactly for user); each text
\* is the concatenation in order of the turn's text parts, or the content string when
\* the turn has no parts field.
C20_TurnsNormalized ==
  (pc = "stream" /\ modelCalls = 1)
    => /\ Len(apiMessages) = Len(body.list)
       /\ \A i \in DOMAIN body.list :
            /\ apiMessages[i].role \in {"user", "assistant"}
            /\ apiMessages[i].role = "user" <=> body.list[i].role = "user"
            /\ Len(apiMessages[i].content) = 1
            /\ apiMessages[i].content[1].type = "string"
            /\ apiMessages[i].content[1].data =
                 IF body.list[i].hasParts THEN TextOfParts(body.list[i].parts)
                 ELSE body.list[i].content

C20_Witness ==
  /\ pc = "stream"
  /\ modelCalls = 1
  /\ Len(body.list) = 2
  /\ body.list[1].hasParts /\ Len(body.list[1].parts) = 4
  /\ apiMessages[1].content[1].data = "ab"
  /\ body.list[2] = Msg("system", "sys")
  /\ apiMessages[2].role = "assistant"
  /\ apiMessages[2].content[1].data = "sys"

\* C21: the block-identifier map is empty when a model turn streams its first block;
\* every tool-input-start frame carries an identifier no earlier frame carried; and a
\* tool-input-available or tool-output-available frame resolves to the identifier of a
\* tool-input-start frame of the same turn (no step was opened in between).
C21_MapScopedToTurn ==
  [][/\ (content = <<>> /\ content' # <<>>)
          => (toolCallIds = EmptyMap /\ toolCalls = EmptyMap)
     /\ \A i \in (Len(out) + 1)..Len(out') :
          /\ out'[i].type = "tool-input-start"
               => \A j \in 1..(i - 1) : out'[j].id # out'[i].id
          /\ out'[i].type \in {"tool-input-available", "tool-output-available"}
               => \E j \in 1..(i - 1) :
                    /\ out'[j].type = "tool-input-start"
                    /\ out'[j].id = out'[i].id
                    /\ \A k \in j..i : out'[k].type # "start-step"]_vars

\* C22: from the first model call on, the conversation turn list starts with the
\* normalized turns of the request, and every step leaves the list as it was or
\* extends it at the end: no entry is edited, removed or reordered.
C22_TurnsOnlyAppended ==
  /\ [](modelCalls >= 1
          => /\ Len(apiMessages) >= Len(body.list)
             /\ SubSeq(apiMessages, 1, Len(body.list)) = toAnthropicMessages(body.list))
  /\ [][/\ Len(apiMessages') >= Len(apiMessages)
        /\ \A k \in DOMAIN apiMessages : apiMessages'[k] = apiMessages[k]]_vars

C22_Witness ==
  /\ modelCalls = 3
  /\ pc = "stream"
  /\ Len(apiMessages) = Len(body.list) + 4
  /\ apiMessages[Len(body.list) + 1].role = "assistant"
  /\ apiMessages[Len(body.list) + 2].role = "user"

\* C23: once closed is true (the client has gone), no step starts a model call and no
\* step issues a gateway tool call, the remaining tool requests of the turn in
\* progress included.
C23_NoCallOnceClosed ==
  [][closed => /\ modelCalls' = modelCalls
               /\ Len(gatewayLog') = Len(gatewayLog)]_vars

\* the gateway calls that were issued and have not settled
Pending(log) == {k \in DOMAIN log : log[k].status = "pending"}

\* C24: at most one gateway tool call is in flight, and only while the handler awaits
\* it; no tool call is in flight while a model call is; and a model call after the
\* first starts only when every tool request of the turn before it has settled and
\* its result was collected.
C24_SequentialLoop ==
  /\ [](/\ Cardinality(Pending(gatewayLog)) <= 1
        /\ pc = "stream" => Pending(gatewayLog) = {}
        /\ Pending(gatewayLog) # {}
             => (pc = "toolCall" /\ Pending(gatewayLog) = {Len(gatewayLog)}))
  /\ [][(modelCalls' > modelCalls /\ modelCalls >= 1)
          => /\ pc = "toolCall"
             /\ Pending(gatewayLog') = {}
             /\ NextToolUse(content, toolIdx + 1) = 0
             /\ Len(apiMessages'[Len(apiMessages')].content) = Len(ToolUses(content))]_vars

C24_Witness ==
  /\ pc = "stream"
  /\ modelCalls = 2
  /\ Len(gatewayLog) = 2
  /\ Pending(gatewayLog) = {}
  /\ Len(apiMessages[Len(apiMessages)].content) = 2

\* the number of tool_use blocks among the first i blocks
ToolUsesUpTo(blocks, i) == Len(ToolUses(SubSeq(blocks, 1, i)))

\* the position in out of the finish-step frame that closed the turn whose k-th tool
\* request is awaited
StepEndOf(k) == Len(out) - 2 * k + 1

\* C25: while the k-th tool request of a turn is awaited, the frames since the turn's
\* blocks are: finish-step (preceded by the text-end of the turn's open text block, if
\* it had one), then for each earlier request its tool-input-available and its
\* tool-output-available with the same toolCallId, then this request's
\* tool-input-available, written in the step that issued its gateway call; nothing is
\* written while the call is awaited; and the step that settles the call writes
\* tool-output-available for the same toolCallId before anything else, the next
\* request's tool-input-available (in the turn's order) right after it.
C25_ToolFramesOrdered ==
  /\ [](pc = "toolCall"
          => LET k == ToolUsesUpTo(content, toolIdx)
                 p == StepEndOf(k)
             IN /\ ~inStep /\ activeTextId = 0
                /\ p > 1
                /\ out[p] = FinishStep
                /\ out[p - 1].type =
                     IF \E b \in DOMAIN content : content[b].type = "text"
                       THEN "text-end" ELSE "tool-input-start"
                /\ \A m \in 1..(k - 1) :
                     /\ out[p + 2 * m - 1].type = "tool-input-available"
                     /\ out[p + 2 * m].type = "tool-output-available"
                     /\ out[p + 2 * m].id = out[p + 2 * m - 1].id
                     /\ out[p + 2 * m - 1].data = ToolUses(content)[m].data
                /\ out[Len(out)] = ToolInputAvailable(toolCallId, content[toolIdx].name,
                                                      content[toolIdx].data)
                /\ gatewayLog[Len(gatewayLog)].name = content[toolIdx].name
                /\ gatewayLog[Len(gatewayLog)].status = "pending")
  /\ [][/\ Len(gatewayLog') > Len(gatewayLog)
             => /\ Len(gatewayLog') = Len(gatewayLog) + 1
                /\ pc' = "toolCall"
                /\ out'[Len(out')].type = "tool-input-available"
                /\ Len(out') > Len(out)
        /\ (pc = "toolCall" /\ gatewayLog' = gatewayLog) => out' = out
        /\ (pc = "toolCall" /\ gatewayLog' # gatewayLog)
             => /\ gatewayLog'[Len(gatewayLog)].status # "pending"
                /\ out'[Len(out) + 1].type = "tool-output-available"
                /\ out'[Len(out) + 1].id = toolCallId
                /\ pc' = "toolCall"
                     => /\ toolIdx' = NextToolUse(content, toolIdx + 1)
                        /\ Len(out') = Len(out) + 2]_vars

C25_Witness ==
  /\ pc = "toolCall"
  /\ ToolUsesUpTo(content, toolIdx) = 2
  /\ out[StepEndOf(2)] = FinishStep
  /\ out[Len(out) - 1].type = "tool-output-available"
  /\ out[Len(out) - 1].id = out[Len(out) - 2].id
  /\ out[Len(out)].id # out[Len(out) - 1].id

\* the number of turns the loop has appended to the conversation
NAppended == Len(apiMessages) - Len(body.list)

\* C26: the turns appended to the conversation come in pairs, one pair per completed
\* tool-requesting iteration: an assistant turn holding the model's full content, then
\* a user turn holding one tool_result per tool_use block of that assistant turn, in
\* order, each with its block's provider-assigned identifier.  The assistant turn is
\* appended when the turn finishes with stop reason tool_use, the user turn when its
\* last tool request has settled; a turn that finishes otherwise appends nothing.
C26_TwoTurnsPerToolIteration ==
  /\ [](modelCalls >= 1
          => /\ pc = "stream" => NAppended = 2 * (modelCalls - 1)
             /\ pc = "toolCall" => NAppended = 2 * modelCalls - 1
             /\ pc = "done" => NAppended \in {2 * (modelCalls - 1), 2 * modelCalls}
             /\ \A k \in AppendedTurns :
                  IF (k - Len(body.list)) % 2 = 1
                    THEN apiMessages[k].role = "assistant"
                    ELSE /\ apiMessages[k].role = "user"
                         /\ Len(apiMessages[k].content)
                              = Len(ToolUses(apiMessages[k - 1].content))
                         /\ \A i \in DOMAIN apiMessages[k].content :
                              /\ apiMessages[k].content[i].type = "tool_result"
                              /\ apiMessages[k].content[i].id
                                   = ToolUses(apiMessages[k - 1].content)[i].id)
  /\ [][/\ (pc = "stream" /\ pc' = "toolCall")
             => (/\ stopReason' = "tool_use"
                 /\ apiMessages' = Append(apiMessages,
                                          [role |-> "assistant", content |-> content]))
        /\ (pc = "stream" /\ pc' # "toolCall") => apiMessages' = apiMessages
        /\ (pc = "toolCall" /\ pc' = "toolCall") => apiMessages' = apiMessages
        /\ (pc = "toolCall" /\ pc' # "toolCall")
             => /\ Len(apiMessages') = Len(apiMessages) + 1
                /\ apiMessages'[Len(apiMessages')].role = "user"]_vars

C26_Witness ==
  /\ pc = "done"
  /\ stopReason = "end_turn"
  /\ modelCalls = 2
  /\ NAppended = 2
  /\ Len(apiMessages[Len(apiMessages)].content) = 2
  /\ apiMessages[Len(apiMessages)].content[1].id = ProviderId(1)
  /\ apiMessages[Len(apiMessages)].content[2].id = ProviderId(2)

\* the frames a step has appended
NewFrames == {out'[i] : i \in (Len(out) + 1)..Len(out')}

\* C27: in the API variant the tools run only after a final message with stop reason
\* tool_use, and then (client connected) the first requested tool is called and the
\* loop goes on; a final message with another stop reason, tool_use blocks in it or
\* not, ends the loop: no gateway call, no tool-input-available frame, no turn
\* appended, no further model call, and (client connected) finish and the marker.  In
\* the CLI variant the end-of-turn event at most closes the open text and step: it
\* writes no tool frame and does not end the response.
C27_StopReasonBranch ==
  /\ []((pc = "stream" /\ modelCalls >= 2) => stopReason = "tool_use")
  /\ [][/\ (pc = "stream" /\ pc' = "toolCall") => stopReason' = "tool_use"
        /\ (pc = "stream" /\ stopReason = "" /\ stopReason' = "tool_use" /\ ~closed)
             => /\ pc' = "toolCall"
                /\ Len(gatewayLog') = Len(gatewayLog) + 1
                /\ gatewayLog'[Len(gatewayLog')].name
                     = content[NextToolUse(content, 1)].name
                /\ out'[Len(out')].type = "tool-input-available"
        /\ (pc = "stream" /\ stopReason' \notin {"tool_use", stopReason})
             => /\ pc' = "done"
                /\ gatewayLog' = gatewayLog
                /\ apiMessages' = apiMessages
                /\ modelCalls' = modelCalls
                /\ \A f \in NewFrames :
                     f.type \notin {"tool-input-available", "tool-output-available",
                                    "error"}
                /\ ~closed => /\ resEnded'
                              /\ SubSeq(out', Len(out') - 1, Len(out')) = <<Finish, Done>>
        /\ (backend = "cli" /\ content # <<>> /\ content' = <<>>)
             => /\ \A f \in NewFrames : f.type \in {"text-end", "finish-step"}
                /\ resEnded' = resEnded
                /\ gatewayLog' = gatewayLog]_vars

C27_Witness ==
  /\ backend = "api"
  /\ pc = "done"
  /\ stopReason = "end_turn"
  /\ NextToolUse(content, 1) # 0
  /\ gatewayLog = <<>>
  /\ resEnded
  /\ CountType(out, "tool-input-start") = 1
  /\ CountType(out, "tool-input-available") = 0

\* C28: a start-step frame is written only while no step is open, and the frame right
\* after it, written in the same step, is a text-start or a tool-input-start; a block
\* start observed while a step is open writes no start-step; every text-start and
\* tool-input-start is written with the step open; the step flag tells whether the
\* last start-step is still without its finish-step; the API variant writes at most
\* one start-step per model call; and a model turn without content blocks writes
\* neither start-step nor finish-step.
C28_StepOpenedLazily ==
  /\ [](/\ CountType(out, "start-step") - CountType(out, "finish-step")
             = IF inStep THEN 1 ELSE 0
        /\ backend = "api" => CountType(out, "start-step") <= modelCalls)
  /\ [][/\ \A i \in (Len(out) + 1)..Len(out') :
             /\ out'[i].type = "start-step"
                  => /\ ~inStep
                     /\ i < Len(out')
                     /\ out'[i + 1].type \in {"text-start", "tool-input-start"}
             /\ out'[i].type \in {"text-start", "tool-input-start"}
                  => /\ inStep'
                     /\ inStep \/ (i > Len(out) + 1 /\ out'[i - 1].type = "start-step")
        /\ (pc = "stream" /\ pc' # "stream" /\ content = <<>>)
             => \A f \in NewFrames : f.type \notin {"start-step", "finish-step"}]_vars

C28_Witness ==
  /\ backend = "api"
  /\ pc = "done"
  /\ resEnded
  /\ modelCalls = 2
  /\ content = <<>>
  /\ CountType(out, "text-start") = 1
  /\ CountType(out, "tool-input-start") = 1
  /\ CountType(out, "start-step") = 1
  /\ CountType(out, "finish-step") = 1

\* lines of the subprocess that the CLI variant does not recognize, map being the
\* correlation map: not JSON; an unknown event type; a stream_event of an unknown
\* subtype, block type or delta type; a text delta without text; an assistant or
\* user message without content, with a text block only, or with a tool_use /
\* tool_result whose identifier is not in the map
UnrecognizedLines(map) ==
  LET textBlock == [type |-> "text", id |-> 0, name |-> <<"">>, data |-> "hi"]
      thinking == [type |-> "thinking", id |-> 0, name |-> <<"">>, data |-> ""]
      delta(dt) == [type |-> dt, text |-> "", stop_reason |-> ""]
      unknownIds == {ProviderId(0), ProviderId(MaxBlocks + 1)} \ DOMAIN map
  IN {[json |-> FALSE, event |-> CliEvent("", "", NoEventBlock, NoDelta, <<>>)]}
     \cup {CliLine(CliEvent(ty, "", NoEventBlock, NoDelta, <<>>)) :
             ty \in {"system", "rate_limit_event", "assistant", "user"}}
     \cup {CliLine(CliEvent("stream_event", et, NoEventBlock, NoDelta, <<>>)) :
             et \in {"message_start", "content_block_stop", "message_stop", "ping"}}
     \cup {CliLine(CliEvent("stream_event", "content_block_start", thinking, NoDelta,
                            <<>>))}
     \cup {CliLine(CliEvent("stream_event", "content_block_delta", NoEventBlock,
                            delta(dt), <<>>)) :
             dt \in {"input_json_delta", "text_delta"}}
     \cup {CliLine(CliEvent(ty, "", NoEventBlock, NoDelta, <<textBlock>>)) :
             ty \in {"assistant", "user"}}
     \cup {CliLine(CliEvent("assistant", "", NoEventBlock, NoDelta,
                            <<[ForeignBlock EXCEPT !.id = i]>>)) : i \in unknownIds}
     \cup {UserLine(i, c) : i \in unknownIds, c \in ResultContents}

\* events of the model stream that the API variant does not recognize: an unknown
\* event type, a block of another type, a delta of another type
UnrecognizedEvents ==
  {[type |-> ty, index |-> 1, block |-> NoBlock, delta |-> [type |-> "", text |-> ""]] :
     ty \in {"message_start", "content_block_stop", "message_delta", "message_stop"}}
  \cup {BlockStartEvent(1, [NoBlock EXCEPT !.type = "thinking"])}
  \cup {[type |-> "content_block_delta", index |-> 1, block |-> NoBlock,
         delta |-> [type |-> "input_json_delta", text |-> "{"]]}

\* C29: in every state in which the handler listens, a line or event it does not
\* recognize leaves the whole handler state as it is: no frame is written, the step
\* flag, the active text id, the correlation map and closed keep their values, and
\* the response is not ended.
C29_UnrecognizedDropped ==
  LET s == Cur
  IN /\ (backend = "cli" /\ pc = "cli")
          => \A line \in UnrecognizedLines(toolCalls) : stdoutData(s, line) = s
     /\ (backend = "api" /\ pc = "stream")
          => \A event \in UnrecognizedEvents : streamEvent(s, event) = s

C29_Witness ==
  /\ backend = "cli"
  /\ pc = "cli"
  /\ ~closed
  /\ inStep
  /\ activeTextId # 0
  /\ toolCalls # EmptyMap
  /\ nEchoes = MaxEchoes
  /\ CountType(out, "tool-input-available") = 0
  /\ CountType(out, "tool-output-available") = 0

\* C30: a response that carries any frame carries start as its first frame, and
\* carries it once.
C30_StartFirst ==
  out # <<>> => (out[1] = Start /\ CountType(out, "start") = 1)

\* C31: no two tool-input-available frames and no two tool-output-available frames
\* of a response carry the same toolCallId, and a tool-output-available frame comes
\* after the tool-input-available frame of its toolCallId.
C31_OneInputOneOutputPerId ==
  /\ \A i, j \in DOMAIN out :
       (/\ out[i].type \in {"tool-input-available", "tool-output-available"}
        /\ out[j].type = out[i].type
        /\ out[j].id = out[i].id) => i = j
  /\ \A i \in DOMAIN out :
       out[i].type = "tool-output-available"
         => \E j \in 1..(i - 1) :
              out[j].type = "tool-input-available" /\ out[j].id = out[i].id

\* the response was ended with the terminal marker and the keep-alive timer cleared
Terminated ==
  /\ resEnded
  /\ ~heartbeatOn
  /\ out # <<>>
  /\ out[Len(out)] = Done

\* C32: an accepted request whose client stays connected and whose collaborators
\* answer is eventually ended with the terminal marker and the timer cleared.
C32_EventuallyTerminated == (status = 200) ~> Terminated

C32_Witness ==
  /\ Terminated
  /\ ~resClosed
  /\ modelCalls = 2
  /\ Len(gatewayLog) = 1

\* no connection attempt of any caller is in flight
NoAttempt == \A c \in Callers : callers[c].pc \notin {"connect", "list"}

\* C33: when no connection attempt is in flight, a set client is a connected one with
\* the catalog cached (a failed attempt leaves the adapter unconnected); and a call
\* made while no attempt is in flight and the adapter is not connected with its
\* catalog cached makes a new connection attempt.
C33_FailureLeavesUnconnected ==
  /\ [](NoAttempt => (client => (connected /\ toolsCache.set)))
  /\ [][(/\ NoAttempt
          /\ ~(connected /\ toolsCache.set)
          /\ \E c \in Callers : callers'[c].calls > callers[c].calls)
         => connects' = connects + 1]_vars

====
